---------------------------- MODULE Spec2Model ----------------------------
(***************************************************************************)
(* Model of the job-posting fraud demo page (src/app.js holds the          *)
(* graph-model and the layers-model variant of class JobFakeDetector,      *)
(* src/unnamed/part_000 the remote /predict variant).                      *)
(*                                                                         *)
(* A text is a sequence of one-character strings.  A JavaScript value is a *)
(* record [type, val] so that numbers, undefined and inherited objects can *)
(* sit in the same array, as they do in the code.                          *)
(***************************************************************************)
EXTENDS Integers, Sequences, FiniteSets, TLC

VARIABLES
    variant,      \* which copy of the program runs: "graph", "layers", "remote"
    wordIndex,    \* this.wordIndex: own keys (words) -> ids
    maxLen,       \* this.maxLen
    text,         \* argument of tokenizeText
    tokResult,    \* what tokenizeText did: not called / returned data / threw
    rows,         \* parsed.data / results.data: the rows Papa.parse produced
    edaOut,       \* what the statistics code made of the rows
    given,        \* the values of the array handed to stats, as they were then
    arr,          \* the array handed to stats, as it is now
    statsOut,     \* what stats returned
    preDoc,       \* what fetching data/eda_data.json yields
    zipDoc,       \* what fetching and unpacking the dataset archive yields
    csvDoc,       \* what downloading the sample CSV yields (remote variant)
    modelLoad,    \* loadModel(): "pending", "ok", "failed"
    tokLoad,      \* loadTokenizer(): "pending", "ok", "failed"
    edaLoad,      \* loadEdaData() / Papa.parse download: where it stands
    initPhase,    \* init(): "loading", "ready" (try block ran), "failed" (catch ran)
    isModelLoaded,
    isDataLoaded,
    edaData,      \* this.edaData / the counts setupEDA rendered
    edaSource,    \* which branch filled edaData
    listenersAttached,  \* the form's submit listener is registered
    chartsRendered,
    errorShown,   \* showError's panel / the eda-error element is visible
    btnDisabled,  \* predictBtn.disabled / predictButton.disabled
    pc,           \* where the submit handler started last is suspended
    requests,     \* how many submit handlers are suspended at an await
    sub,          \* the latest submission: "none", "blank", "inflight", "settled"
    lastForm,     \* the field values of the latest submission
    invoked,      \* the inference steps the latest submission reached
    payload,      \* the text the latest submission handed to the inference
    alertShown,   \* the alert the latest submission raised
    inputLive,    \* the latest submission's input tensor is allocated
    outputLive,   \* the latest submission's output tensor is allocated
    leaked,       \* tensors of earlier submissions never disposed
    statusText,   \* statusEl.textContent (remote variant)
    timers,       \* pending setTimeout callbacks that clear the status
    resultVisible,
    errorVisible,
    shownProba,   \* the probability on display, in thousandths
    shownLabel,   \* the verdict on display: "none", "legit", "fraud"
    response      \* the /predict response the latest submission received

sharedVars == <<variant, wordIndex, maxLen>>

tokVars == <<text, tokResult>>

edaVars == <<rows, edaOut>>

statVars == <<given, arr, statsOut>>

loadVars ==
    <<preDoc, zipDoc, csvDoc, modelLoad, tokLoad, edaLoad, initPhase,
      isModelLoaded, isDataLoaded, edaData, edaSource, chartsRendered, errorShown>>

submitVars ==
    <<pc, requests, sub, lastForm, invoked, payload, alertShown, inputLive, outputLive, leaked,
      statusText, timers, resultVisible, errorVisible, shownProba, shownLabel,
      response>>

appVars == <<loadVars, listenersAttached, btnDisabled, submitVars>>

vars == <<sharedVars, tokVars, edaVars, statVars, statVars, appVars>>

-----------------------------------------------------------------------------
(* Bounds of the model *)

\* longest enumerated input text, in characters
MaxTextLen == 4

\* largest small max_len of the enumerated tokenizer configurations
MaxMaxLen == 3

\* most rows in an enumerated dataset
MaxRows == 2

\* most tensors left allocated before submissions stop being enumerated
MaxLeaked == 2

\* most status-clearing timers pending at once
MaxTimers == 2

\* longest enumerated array of text lengths
MaxStatLen == 5

\* largest enumerated text length
MaxStatValue == 5

(* Program constants *)

\* const fixedLen = 300 (graph-model tokenizeText)
fixedLen == 300

-----------------------------------------------------------------------------
(* JavaScript values *)

Num(n) == [type |-> "number", val |-> n]

Undefined == [type |-> "undefined", val |-> 0]

\* a property found on Object.prototype (a function or an object)
Inherited == [type |-> "object", val |-> 0]

\* ToBoolean of the values above
Truthy(v) == v.type = "object" \/ (v.type = "number" /\ v.val # 0)

\* a || b
OrElse(a, b) == IF Truthy(a) THEN a ELSE b

-----------------------------------------------------------------------------
(* Characters and words *)

LowerChars == {"a", "b", "c", "d", "e", "n", "o", "r", "s", "t", "u"}

UpperChars == {"A", "B"}

DigitChars == {"0", "1"}

\* \w of the regular expression: letters, digits, underscore
WordChars == LowerChars \cup UpperChars \cup DigitChars \cup {"_"}

\* String.prototype.toLowerCase, one character
LowerChar(c) == CASE c = "A" -> "a" [] c = "B" -> "b" [] OTHER -> c

toLowerCase(s) == [i \in 1..Len(s) |-> LowerChar(s[i])]

\* s.match(/\b\w+\b/g) || []: the maximal runs of word characters, in order.
\* A run starts at a word character that has no word character before it and
\* ends before the next character that is not one.
IsRunStart(s, i) == s[i] \in WordChars /\ (i = 1 \/ s[i - 1] \notin WordChars)

RunEnd(s, i) ==
    CHOOSE j \in i..Len(s) :
        /\ (j = Len(s) \/ s[j + 1] \notin WordChars)
        /\ \A k \in i..j : s[k] \in WordChars

matchWords(s) ==
    LET IsStart(i) == IsRunStart(s, i)
        starts     == SelectSeq([i \in 1..Len(s) |-> i], IsStart)
    IN  [k \in 1..Len(starts) |-> SubSeq(s, starts[k], RunEnd(s, starts[k]))]

\* the lowercase words every plain object inherits from Object.prototype
ObjectPrototypeKeys ==
    { <<"c", "o", "n", "s", "t", "r", "u", "c", "t", "o", "r">> }

\* obj[word] on a plain object with own properties wi
GetProperty(wi, word) ==
    IF word \in DOMAIN wi THEN Num(wi[word])
    ELSE IF word \in ObjectPrototypeKeys THEN Inherited
    ELSE Undefined

\* Array(n).fill(0)
Zeros(n) == [i \in 1..n |-> Num(0)]

\* a.slice(0, n)
SliceTo(a, n) == SubSeq(a, 1, IF n < Len(a) THEN n ELSE Len(a))

Max(a, b) == IF a > b THEN a ELSE b

Min(a, b) == IF a < b THEN a ELSE b

\* every sequence over S of length at most n: the enumerated inputs
RECURSIVE SeqsUpTo(_, _)
SeqsUpTo(S, n) ==
    IF n = 0 THEN { <<>> }
    ELSE LET shorter == SeqsUpTo(S, n - 1)
         IN  shorter \cup { Append(s, c) : s \in { x \in shorter : Len(x) = n - 1 }, c \in S }

-----------------------------------------------------------------------------
(* tokenizeText *)

\* words.map(word => this.wordIndex[word] || 1)
TokenIds(wi, t) ==
    LET words == matchWords(toLowerCase(t))
    IN  [i \in 1..Len(words) |-> OrElse(GetProperty(wi, words[i]), Num(1))]

\* outcome of a call: the array handed to tf.tensor2d, or an exception
Returned(d) == [outcome |-> "returned", data |-> d]

Threw == [outcome |-> "threw", data |-> <<>>]

NotCalled == [outcome |-> "none", data |-> <<>>]

\* graph-model variant: pad to maxLen, cut to maxLen, then fit to fixedLen
tokenizeTextGraph(wi, ml, t) ==
    LET sequence   == TokenIds(wi, t)
        padded     == sequence \o Zeros(Max(ml - Len(sequence), 0))
        inputArray == SliceTo(padded, ml)
        data       == IF Len(inputArray) > fixedLen
                      THEN SliceTo(inputArray, fixedLen)
                      ELSE IF Len(inputArray) < fixedLen
                           THEN inputArray \o Zeros(fixedLen - Len(inputArray))
                           ELSE inputArray
    IN  Returned(data)

\* layers-model variant: Array(n) with n < 0 raises RangeError
tokenizeTextLayers(wi, ml, t) ==
    LET sequence == TokenIds(wi, t)
    IN  IF ml - Len(sequence) < 0
        THEN Threw
        ELSE Returned(SliceTo(sequence \o Zeros(ml - Len(sequence)), ml))

tokenizeText(v, wi, ml, t) ==
    IF v = "graph" THEN tokenizeTextGraph(wi, ml, t)
    ELSE tokenizeTextLayers(wi, ml, t)

\* the length the model input is meant to have in each variant
FixedLenOf(v, ml) == IF v = "graph" THEN fixedLen ELSE ml

-----------------------------------------------------------------------------
(* Dataset rows and the statistics computed from them *)

\* a string value, as a sequence of characters
Str(chars) == [type |-> "string", val |-> chars]

\* a field the row does not have (row.f is undefined)
Absent == [type |-> "undefined", val |-> <<>>]

\* a === b for the values of a row
StrictEq(a, b) == a.type = b.type /\ a.val = b.val

\* n times the character c
Repeat(c, n) == [i \in 1..n |-> c]

\* description-length buckets of the remote variant's dataset summary
shortLimit == 300

mediumLimit == 800

FraudValues == { Str(<<"0">>), Str(<<"1">>), Str(<<>>), Absent }

FieldValues == { Absent, Str(<<"a">>) }

SmallRows ==
    [ fraudulent : FraudValues, title : FieldValues,
      description : { Str(<<>>), Str(<<"a", " ", "B">>) },
      company_profile : { Absent }, requirements : { Absent },
      benefits : { Absent } ]

LongRow(n) ==
    [ fraudulent |-> Str(<<"1">>), title |-> Absent,
      description |-> Str(Repeat("a", n)), company_profile |-> Absent,
      requirements |-> Absent, benefits |-> Absent ]

\* rows of either class with whitespace-only values and every field present
BlankRows ==
    [ fraudulent : { Str(<<"0">>), Str(<<"1">>) }, title : { Str(<<" ">>) },
      description : { Str(<<>>) }, company_profile : { Str(<<"a">>) },
      requirements : { Str(<<" ", " ">>) }, benefits : { Str(<<"B", " ">>) } ]

Rows == SmallRows \cup BlankRows \cup { LongRow(shortLimit), LongRow(mediumLimit) }

RowSeqs == SeqsUpTo(Rows, MaxRows)

IsZero(row) == StrictEq(row.fraudulent, Str(<<"0">>))

IsOne(row) == StrictEq(row.fraudulent, Str(<<"1">>))

\* computeEdaStats(data).classDistribution: data.filter(...).length
classDistribution(data) ==
    [ real  |-> Len(SelectSeq(data, IsZero)),
      fake  |-> Len(SelectSeq(data, IsOne)),
      total |-> Len(data) ]

\* (row["description"] || "").toString().length
DescLen(row) ==
    IF row.description.type = "string" THEN Len(row.description.val) ELSE 0

IsShort(row) == DescLen(row) < shortLimit

IsMedium(row) == ~IsShort(row) /\ DescLen(row) < mediumLimit

IsLong(row) == ~IsShort(row) /\ ~IsMedium(row)

\* fraudVal === "1" || fraudVal === 1: header-mode parsing yields strings only
IsFraudRow(row) == IsOne(row) \/ StrictEq(row.fraudulent, Num(1))

IsRealRow(row) == ~IsFraudRow(row)

\* the counting loop of setupEDA's complete callback, for a non-empty result
csvCounts(data) ==
    LET countReal  == Len(SelectSeq(data, IsRealRow))
        countFraud == Len(SelectSeq(data, IsFraudRow))
    IN  [ classDistribution |->
              [ real |-> countReal, fake |-> countFraud,
                total |-> countReal + countFraud ],
          lengthBuckets |->
              [ short  |-> Len(SelectSeq(data, IsShort)),
                medium |-> Len(SelectSeq(data, IsMedium)),
                long   |-> Len(SelectSeq(data, IsLong)) ] ]

NoOutput == [ kind |-> "none" ]

Summary(sm) == [ kind |-> "summary", summary |-> sm ]

\* "Dataset file loaded but contains no rows."
NoRowsError == [ kind |-> "no rows" ]

EdaIdle == rows = <<>> /\ edaOut = NoOutput

TokIdle == text = <<>> /\ tokResult = NotCalled

-----------------------------------------------------------------------------
(* The job form and the text made of it *)

\* ids of the nine form fields, in the order the code lists them
FieldIds ==
    << "title", "company_profile", "description", "requirements", "benefits",
       "location", "salary_range", "employment_type", "industry" >>

WhiteSpace == {" "}

\* String.prototype.trim
trim(s) ==
    LET keep == { i \in 1..Len(s) : s[i] \notin WhiteSpace }
    IN  IF keep = {} THEN <<>>
        ELSE SubSeq(s, CHOOSE i \in keep : \A j \in 1..(i - 1) : s[j] \in WhiteSpace,
                       CHOOSE i \in keep : \A j \in (i + 1)..Len(s) : s[j] \in WhiteSpace)

\* parts.filter(t => t).join(' ') over parts[k..]
RECURSIVE JoinNonEmpty(_, _)
JoinNonEmpty(parts, k) ==
    IF k > Len(parts) THEN <<>>
    ELSE LET rest == JoinNonEmpty(parts, k + 1)
         IN  IF parts[k] = <<>> THEN rest
             ELSE IF rest = <<>> THEN parts[k]
             ELSE parts[k] \o <<" ">> \o rest

\* getFullText: the trimmed non-empty field values joined by one blank
getFullText(form) ==
    JoinNonEmpty([k \in 1..Len(FieldIds) |-> trim(form[FieldIds[k]])], 1)

\* a + " " + b + ... over parts[k..]
RECURSIVE JoinAll(_, _)
JoinAll(parts, k) ==
    IF k = Len(parts) THEN parts[k]
    ELSE parts[k] \o <<" ">> \o JoinAll(parts, k + 1)

\* full_text of the remote variant: the raw values, blank-separated
fullTextRemote(form) ==
    JoinAll([k \in 1..Len(FieldIds) |-> form[FieldIds[k]]], 1)

\* !fullText.trim()
IsBlank(t) == trim(t) = <<>>

FieldIdSet == { FieldIds[k] : k \in 1..Len(FieldIds) }

\* a form with value v in the fields of S and b in every other field
FormOf(S, v, b) == [f \in FieldIdSet |-> IF f \in S THEN v ELSE b]

FilledFields == { {}, {"title"}, {"description", "industry"} }

FormValues == { <<"a">>, <<" ", "a", ".", "B", " ">> }

BlankValues == { <<>>, <<" ">> }

Forms == { FormOf(S, v, b) : S \in FilledFields, v \in FormValues, b \in BlankValues }

\* every field empty or whitespace only
AllBlank(form) == \A f \in FieldIdSet : trim(form[f]) = <<>>

-----------------------------------------------------------------------------
(* computeEdaStats: text lengths, missing values, word lists *)

\* the five text fields, in the order the code lists them
TextFields ==
    << "title", "description", "company_profile", "requirements", "benefits" >>

TextFieldSet == { TextFields[k] : k \in 1..Len(TextFields) }

\* the characters of a field value; a missing value has none
FieldText(v) == IF v.type = "string" THEN v.val ELSE <<>>

\* a text-length mutation: the kept values run together without a separator
RECURSIVE rowTextUnseparated(_)
rowTextUnseparated(parts) ==
    IF parts = <<>> THEN <<>>
    ELSE Head(parts) \o rowTextUnseparated(Tail(parts))

\* [row.title, ..., row.benefits].filter(Boolean).join(' ')
rowText(parts) == JoinNonEmpty(parts, 1)

\* data.map(row => ({ length: text, isFake: row.fraudulent === '1' }))
textLengths(data) ==
    [ i \in 1..Len(data) |->
        [ length |-> Len(rowText([k \in 1..Len(TextFields) |->
                                      FieldText(data[i][TextFields[k]])])),
          isFake |-> IsOne(data[i]) ] ]

\* a missing-value mutation: whitespace-only values count as present
IsMissingUntrimmed(v) == v.type # "string" \/ v.val = <<>>

\* !row[field] || row[field].trim() === ''
IsMissing(v) == v.type # "string" \/ v.val = <<>> \/ trim(v.val) = <<>>

\* const group = isFake ? 'fake' : 'real'
GroupOf(row) == IF IsOne(row) THEN "fake" ELSE "real"

\* stats[group] after data[1..n]: a field's counter exists once a row of the
\* group has been visited, and reads undefined before that
RECURSIVE missingCounts(_, _, _)
missingCounts(data, group, n) ==
    IF n = 0 THEN [f \in TextFieldSet |-> Undefined]
    ELSE LET before == missingCounts(data, group, n - 1)
             row    == data[n]
         IN  IF GroupOf(row) # group THEN before
             ELSE [ f \in TextFieldSet |->
                      LET zeroed == IF Truthy(before[f]) THEN before[f].val ELSE 0
                      IN  Num(IF IsMissing(row[f]) THEN zeroed + 1 ELSE zeroed) ]

computeMissingValues(data) ==
    [ real |-> missingCounts(data, "real", Len(data)),
      fake |-> missingCounts(data, "fake", Len(data)) ]

\* .slice(0, 100)
topWords == 100

\* the text extractWords tokenizes for one job: the graph-model copy drops
\* missing and empty values before joining, the layers-model copy joins all
\* three (join writes a missing value as the empty string)
jobText(v, job) ==
    LET parts == << FieldText(job.title), FieldText(job.description),
                    FieldText(job.company_profile) >>
    IN  toLowerCase(IF v = "graph" THEN JoinNonEmpty(parts, 1)
                    ELSE JoinAll(parts, 1))

\* the words of jobs[1..n], in the order the two loops visit them
RECURSIVE jobWords(_, _, _)
jobWords(v, jobs, n) ==
    IF n = 0 THEN <<>>
    ELSE jobWords(v, jobs, n - 1) \o matchWords(jobText(v, jobs[n]))

\* the source text of an inherited function followed by k characters "1"
Concatenated(k) == [type |-> "text", val |-> k]

\* x after n rounds of x = (x || 0) + 1: a missing count becomes the number
\* n; anything else truthy is converted to a string and "1" is appended n
\* times
PlusOnes(x, n) ==
    IF x.type = "undefined" THEN Num(n) ELSE Concatenated(n)

\* wordFreq after words.forEach(word => wordFreq[word] = (wordFreq[word] || 0) + 1):
\* its own properties in the order they were created, which is the order of
\* the words' first occurrences
wordFreq(words) ==
    LET IsFirst(k) == \A m \in 1..(k - 1) : words[m] # words[k]
        firsts     == SelectSeq([k \in 1..Len(words) |-> k], IsFirst)
        Count(w)   == Cardinality({ k \in 1..Len(words) : words[k] = w })
    IN  [ i \in 1..Len(firsts) |->
            LET word == words[firsts[i]]
            IN  [ word |-> word,
                  freq |-> PlusOnes(IF word \in ObjectPrototypeKeys
                                    THEN Inherited ELSE Undefined,
                                    Count(word)) ] ]

\* a property key that is a canonical array index (all inputs are far below
\* the largest index, 2^32 - 2)
IsArrayIndex(w) ==
    /\ \A i \in 1..Len(w) : w[i] \in DigitChars
    /\ (Len(w) = 1 \/ w[1] # "0")
    /\ Len(w) <= 9

\* the number written by the digits w[1..n]
RECURSIVE DigitsValue(_, _)
DigitsValue(w, n) ==
    IF n = 0 THEN 0
    ELSE 10 * DigitsValue(w, n - 1) + (IF w[n] = "1" THEN 1 ELSE 0)

IsIndexEntry(e) == IsArrayIndex(e.word)

IsNameEntry(e) == ~IsArrayIndex(e.word)

\* Object.entries(wordFreq): array-index keys first, in ascending numeric
\* order, then the other keys in the order they were created
ObjectEntries(wf) ==
    LET idx      == SelectSeq(wf, IsIndexEntry)
        Value(i) == DigitsValue(idx[i].word, Len(idx[i].word))
        Below(i) == Cardinality({ j \in 1..Len(idx) : Value(j) < Value(i) })
    IN  [ k \in 1..Len(idx) |->
            idx[CHOOSE i \in 1..Len(idx) : Below(i) = k - 1] ]
        \o SelectSeq(wf, IsNameEntry)

\* the entries with frequencies v, v - 1, ..., 1, each level in the order
\* the entries had
RECURSIVE byLevel(_, _)
byLevel(entries, v) ==
    IF v = 0 THEN <<>>
    ELSE LET AtLevel(e) == e.freq.val = v
         IN  SelectSeq(entries, AtLevel) \o byLevel(entries, v - 1)

\* entries.sort((a, b) => b[1] - a[1]) when every frequency is a number: the
\* sort is stable, so entries of equal frequency keep their order
sortByFreq(entries) ==
    LET top == CHOOSE v \in { entries[i].freq.val : i \in 1..Len(entries) } \cup {0} :
                   \A i \in 1..Len(entries) : entries[i].freq.val <= v
    IN  byLevel(entries, top)

Orders(n) ==
    { p \in [1..n -> 1..n] : \A i, j \in 1..n : p[i] = p[j] => i = j }

\* extractWords(jobs): the lists it can return. With a frequency that is not
\* a number the comparator yields NaN, it is not a consistent comparison, and
\* the order sort leaves is implementation-defined.
extractWords(v, jobs) ==
    LET words   == jobWords(v, jobs, Len(jobs))
        entries == ObjectEntries(wordFreq(words))
        n       == Len(entries)
    IN  IF \A i \in 1..n : entries[i].freq.type = "number"
        THEN { SliceTo(sortByFreq(entries), topWords) }
        ELSE { SliceTo([k \in 1..n |-> entries[p[k]]], topWords) :
                 p \in Orders(n) }

\* computeEdaStats(data): the summaries it can return
computeEdaStats(v, data) ==
    { [ classDistribution |-> classDistribution(data),
        textLengths       |-> textLengths(data),
        missingValues     |-> computeMissingValues(data),
        realWords         |-> rw,
        fakeWords         |-> fw ] :
        rw \in extractWords(v, SelectSeq(data, IsZero)),
        fw \in extractWords(v, SelectSeq(data, IsOne)) }

-----------------------------------------------------------------------------
(* stats: the five-number summary of the box plot *)

\* Math.min() and Math.max() of no arguments: Infinity and -Infinity
Infinity(sign) == [type |-> "infinity", val |-> sign]

\* [...a].sort((x, y) => x - y): position k holds the value that has k - 1
\* values before it, counting smaller values and equal values met earlier
sortAscending(a) ==
    LET Before(i) ==
            Cardinality({ j \in 1..Len(a) : a[j] < a[i] \/ (a[j] = a[i] /\ j < i) })
    IN  [ k \in 1..Len(a) |-> a[CHOOSE i \in 1..Len(a) : Before(i) = k - 1] ]

\* a quartile-index mutation: the index is rounded up
quantileIndexRoundedUp(n, pct) == (n * pct + 99) \div 100

\* Math.floor(n * 0.25), Math.floor(n * 0.5), Math.floor(n * 0.75): pct is
\* the factor in hundredths
quantileIndex(n, pct) == (n * pct) \div 100

\* sorted[k] for a 0-based k: undefined past the end
ElementAt(sorted, k) == IF k < Len(sorted) THEN Num(sorted[k + 1]) ELSE Undefined

\* Math.min(...a)
minOf(a) ==
    IF a = <<>> THEN Infinity(1)
    ELSE Num(CHOOSE x \in { a[i] : i \in 1..Len(a) } : \A i \in 1..Len(a) : x <= a[i])

\* Math.max(...a)
maxOf(a) ==
    IF a = <<>> THEN Infinity(-1)
    ELSE Num(CHOOSE x \in { a[i] : i \in 1..Len(a) } : \A i \in 1..Len(a) : a[i] <= x)

stats(a) ==
    LET sorted == sortAscending(a)
        n      == Len(sorted)
    IN  [ min    |-> minOf(a),
          q1     |-> ElementAt(sorted, quantileIndex(n, 25)),
          median |-> ElementAt(sorted, quantileIndex(n, 50)),
          q3     |-> ElementAt(sorted, quantileIndex(n, 75)),
          max    |-> maxOf(a) ]

NotSummarised == [ called |-> FALSE, summary |-> stats(<<>>) ]

StatIdle == given = <<>> /\ arr = <<>> /\ statsOut = NotSummarised

-----------------------------------------------------------------------------
(* The page before anything has happened *)

NoProba == -1

NoResponse == [ ok |-> FALSE, body |-> "none" ]

EmptyForm == FormOf({}, <<>>, <<>>)

\* no submission has been made
SubmitInit ==
    /\ pc = "idle"
    /\ requests = 0
    /\ sub = "none"
    /\ lastForm = EmptyForm
    /\ invoked = {}
    /\ payload = <<>>
    /\ alertShown = "none"
    /\ inputLive = FALSE
    /\ outputLive = FALSE
    /\ leaked = 0
    /\ statusText = ""
    /\ timers = 0
    /\ resultVisible = FALSE
    /\ errorVisible = FALSE
    /\ shownProba = NoProba
    /\ shownLabel = "none"
    /\ response = NoResponse

\* constructor(): nothing loaded
LoadInit ==
    /\ isModelLoaded = FALSE
    /\ isDataLoaded = FALSE
    /\ edaData = NoOutput
    /\ edaSource = "none"
    /\ chartsRendered = FALSE
    /\ errorShown = FALSE

\* the page is not part of the specification at hand
AppIdle ==
    /\ preDoc = "unused" /\ zipDoc = "unused" /\ csvDoc = "unused"
    /\ modelLoad = "none" /\ tokLoad = "none" /\ edaLoad = "none"
    /\ initPhase = "none"
    /\ LoadInit
    /\ listenersAttached = FALSE
    /\ btnDisabled = FALSE
    /\ SubmitInit

-----------------------------------------------------------------------------
(* Inputs of the tokenizer specification *)

TextChars == {"a", "B", " ", "."}

\* n one-letter words separated by blanks
LongText(n) == [i \in 1..(2 * n - 1) |-> IF i % 2 = 1 THEN "a" ELSE " "]

ConstructorText == <<"c", "o", "n", "s", "t", "r", "u", "c", "t", "o", "r">>

Texts ==
    SeqsUpTo(TextChars, MaxTextLen)
        \cup { LongText(fixedLen + 1), ConstructorText }

Vocabulary == { <<"a">>, <<"a", "b">> }

Ids == {5, 7}

\* config.word_index || {}: every own-key set over the vocabulary, positive ids
WordIndexes == UNION { [D -> Ids] : D \in SUBSET Vocabulary }

MaxLens == (1..MaxMaxLen) \cup {fixedLen, fixedLen + 1}

TokInit ==
    /\ variant \in {"graph", "layers"}
    /\ wordIndex \in WordIndexes
    /\ maxLen \in MaxLens
    /\ text \in Texts
    /\ tokResult = NotCalled
    /\ EdaIdle
    /\ StatIdle
    /\ AppIdle

TokCall ==
    /\ tokResult.outcome = "none"
    /\ tokResult' = tokenizeText(variant, wordIndex, maxLen, text)
    /\ UNCHANGED <<variant, wordIndex, maxLen, text>>
    /\ UNCHANGED <<edaVars, statVars, appVars>>

TokNext == TokCall

SpecTok == TokInit /\ [][TokNext]_vars

-----------------------------------------------------------------------------
(* The statistics specification: one dataset, summarised once *)

EdaInit ==
    /\ variant \in {"graph", "layers", "remote"}
    /\ wordIndex = <<>>
    /\ maxLen = 0
    /\ rows \in RowSeqs
    /\ edaOut = NoOutput
    /\ TokIdle
    /\ StatIdle
    /\ AppIdle

\* processCsvData: this.edaData = this.computeEdaStats(parsed.data)
ComputeEdaStats ==
    /\ variant \in {"graph", "layers"}
    /\ edaOut = NoOutput
    /\ \E sm \in computeEdaStats(variant, rows) : edaOut' = Summary(sm)
    /\ UNCHANGED <<rows, sharedVars, tokVars, statVars, appVars>>

\* setupEDA: Papa.parse complete callback
CsvComplete ==
    /\ variant = "remote"
    /\ edaOut = NoOutput
    /\ edaOut' = IF Len(rows) = 0 THEN NoRowsError ELSE Summary(csvCounts(rows))
    /\ UNCHANGED <<rows, sharedVars, tokVars, statVars, appVars>>

EdaNext == ComputeEdaStats \/ CsvComplete

SpecEda == EdaInit /\ [][EdaNext]_vars

(* The word-list specification: datasets chosen for their words *)

Letters == << "a", "b", "c", "d", "e", "n", "o", "r", "s", "t", "u" >>

\* the k-th two-letter word over Letters
WordNo(k) ==
    << Letters[((k - 1) \div Len(Letters)) + 1],
       Letters[((k - 1) % Len(Letters)) + 1] >>

\* the first n two-letter words, separated by blanks
ManyWords(n) ==
    [ i \in 1..(3 * n - 1) |->
        IF (i - 1) % 3 = 2 THEN " "
        ELSE WordNo(((i - 1) \div 3) + 1)[((i - 1) % 3) + 1] ]

ShortWordRows ==
    [ fraudulent : { Str(<<"0">>), Str(<<"1">>) },
      title : { Absent, Str(<<"b", " ", "1">>), Str(ConstructorText) },
      description : { Str(<<>>), Str(<<"a", " ", "B", " ", "a">>) },
      company_profile : { Absent, Str(<<"a">>) },
      requirements : { Absent }, benefits : { Absent } ]

\* as many distinct words as a list keeps, one more, and one more with the
\* last word written twice; a digit-only word may follow
LongWordRows ==
    [ fraudulent : { Str(<<"0">>), Str(<<"1">>) },
      title : { Absent },
      description : { Str(ManyWords(topWords)), Str(ManyWords(topWords + 1)),
                      Str(ManyWords(topWords + 1) \o <<" ">> \o WordNo(topWords + 1)) },
      company_profile : { Absent, Str(<<"1">>) },
      requirements : { Absent }, benefits : { Absent } ]

PlainShortWordRows == { r \in ShortWordRows : r.title.val # ConstructorText }

WordRowSeqs ==
    SeqsUpTo(ShortWordRows, MaxRows)
        \cup { << r >> : r \in LongWordRows }
        \cup { << r, q >> : r \in LongWordRows, q \in PlainShortWordRows }

WordsInit ==
    /\ variant \in {"graph", "layers"}
    /\ wordIndex = <<>>
    /\ maxLen = 0
    /\ rows \in WordRowSeqs
    /\ edaOut = NoOutput
    /\ TokIdle
    /\ StatIdle
    /\ AppIdle

SpecWords == WordsInit /\ [][ComputeEdaStats]_vars

-----------------------------------------------------------------------------
(* The five-number-summary specification: one array, summarised once *)

StatArrays == SeqsUpTo(1..MaxStatValue, MaxStatLen)

StatsInit ==
    /\ variant = "layers"
    /\ wordIndex = <<>>
    /\ maxLen = 0
    /\ given \in StatArrays
    /\ arr = given
    /\ statsOut = NotSummarised
    /\ TokIdle
    /\ EdaIdle
    /\ AppIdle

\* renderBoxplot: this.stats(realLengths); the sort works on a copy
Stats ==
    /\ ~statsOut.called
    /\ statsOut' = [ called |-> TRUE, summary |-> stats(arr) ]
    /\ arr' = arr
    /\ UNCHANGED <<given, sharedVars, tokVars, edaVars, appVars>>

SpecStats == StatsInit /\ [][Stats]_vars

-----------------------------------------------------------------------------
(* Startup: init() of the local variants, DOMContentLoaded of the remote one *)

Local == variant \in {"graph", "layers"}

PreDocs == {"ok", "notOk", "rejects", "malformed"}

ZipDocs == {"ok", "unreachable", "noCsv"}

CsvDocs == {"ok", "fails"}

\* frontend_config.json documents: max_len and word_index
Configs ==
    { [max_len |-> 1, word_index |-> <<>>],
      [max_len |-> MaxMaxLen, word_index |-> [w \in { <<"a">> } |-> 5]] }

\* the datasets the archive or the sample CSV may hold
AppRowSeqs ==
    { <<>>,
      << [ fraudulent |-> Str(<<"1">>), title |-> Str(<<"a">>),
           description |-> Str(<<>>), company_profile |-> Absent,
           requirements |-> Absent, benefits |-> Absent ],
         [ fraudulent |-> Str(<<>>), title |-> Absent,
           description |-> Str(<<"a", " ", "B">>), company_profile |-> Absent,
           requirements |-> Absent, benefits |-> Str(<<"a">>) ] >> }

\* a well-formed data/eda_data.json
PrecomputedSummary ==
    [ classDistribution |-> [ real |-> 3, fake |-> 1, total |-> 4 ] ]

getMockEdaData ==
    [ classDistribution |-> [ real |-> 14856, fake |-> 866, total |-> 15722 ] ]

AppInit ==
    /\ variant \in {"graph", "layers", "remote"}
    /\ wordIndex = <<>>
    /\ maxLen = 0
    /\ preDoc \in (IF Local THEN PreDocs ELSE {"unused"})
    /\ zipDoc \in (IF Local THEN ZipDocs ELSE {"unused"})
    /\ csvDoc \in (IF Local THEN {"unused"} ELSE CsvDocs)
    /\ modelLoad = (IF Local THEN "pending" ELSE "none")
    /\ tokLoad = (IF Local THEN "pending" ELSE "none")
    /\ edaLoad = (IF Local THEN "fetching" ELSE "downloading")
    /\ initPhase = (IF Local THEN "loading" ELSE "none")
    /\ LoadInit
    /\ listenersAttached = ~Local
    /\ btnDisabled = Local
    /\ SubmitInit
    /\ TokIdle
    /\ EdaIdle
    /\ StatIdle

\* loadModel settles
LoadModelSettles ==
    /\ Local
    /\ modelLoad = "pending"
    /\ \E r \in {"ok", "failed"} : modelLoad' = r
    /\ UNCHANGED <<sharedVars, tokVars, edaVars, statVars, preDoc, zipDoc, csvDoc, tokLoad,
                   edaLoad, initPhase, isModelLoaded, isDataLoaded, edaData,
                   edaSource, chartsRendered, errorShown, listenersAttached,
                   btnDisabled, submitVars>>

\* loadTokenizer settles: the configuration is stored, or the load throws
LoadTokenizerSettles ==
    /\ Local
    /\ tokLoad = "pending"
    /\ \/ /\ tokLoad' = "failed"
          /\ UNCHANGED <<maxLen, wordIndex>>
       \/ \E config \in Configs :
             /\ maxLen' = config.max_len
             /\ wordIndex' = config.word_index
             /\ tokLoad' = "ok"
    /\ UNCHANGED <<variant, tokVars, edaVars, statVars, preDoc, zipDoc, csvDoc, modelLoad,
                   edaLoad, initPhase, isModelLoaded, isDataLoaded, edaData,
                   edaSource, chartsRendered, errorShown, listenersAttached,
                   btnDisabled, submitVars>>

\* loadEdaData: the fetch of data/eda_data.json (and the reading of its body)
\* settles
EdaFetchSettles ==
    /\ Local
    /\ edaLoad = "fetching"
    /\ \/ /\ preDoc = "ok"
          /\ edaData' = Summary(PrecomputedSummary)
          /\ edaSource' = "precomputed"
          /\ edaLoad' = "done"
       \/ /\ preDoc = "notOk"
          /\ edaLoad' = "unzipping"
          /\ UNCHANGED <<edaData, edaSource>>
       \/ /\ preDoc \in {"rejects", "malformed"}
          /\ edaData' = Summary(getMockEdaData)
          /\ edaSource' = "mock"
          /\ edaLoad' = "done"
    /\ UNCHANGED <<sharedVars, tokVars, edaVars, statVars, preDoc, zipDoc, csvDoc, modelLoad,
                   tokLoad, initPhase, isModelLoaded, isDataLoaded,
                   chartsRendered, errorShown, listenersAttached,
                   btnDisabled, submitVars>>

\* processCsvData settles; its exceptions land in loadEdaData's catch
EdaZipSettles ==
    /\ Local
    /\ edaLoad = "unzipping"
    /\ \/ /\ zipDoc = "ok"
          /\ \E data \in AppRowSeqs :
                \E sm \in computeEdaStats(variant, data) : edaData' = Summary(sm)
          /\ edaSource' = "computed"
       \/ /\ zipDoc # "ok"
          /\ edaData' = Summary(getMockEdaData)
          /\ edaSource' = "mock"
    /\ edaLoad' = "done"
    /\ UNCHANGED <<sharedVars, tokVars, edaVars, statVars, preDoc, zipDoc, csvDoc, modelLoad,
                   tokLoad, initPhase, isModelLoaded, isDataLoaded,
                   chartsRendered, errorShown, listenersAttached,
                   btnDisabled, submitVars>>

\* an await that leaves loadEdaData out of Promise.all
AllLoadedButDataset == modelLoad = "ok" /\ tokLoad = "ok"

\* Promise.all([...]) fulfils: every load has fulfilled
AllLoaded == modelLoad = "ok" /\ tokLoad = "ok" /\ edaLoad = "done"

\* Promise.all([...]) rejects: some load has rejected (loadEdaData never does)
SomeLoadFailed == modelLoad = "failed" \/ tokLoad = "failed"

\* init, after the await: flags, setupEventListeners, renderEda
InitAllLoaded ==
    /\ Local
    /\ initPhase = "loading"
    /\ AllLoaded
    /\ isModelLoaded' = TRUE
    /\ isDataLoaded' = TRUE
    /\ listenersAttached' = TRUE
    /\ btnDisabled' = ~isModelLoaded'
    /\ chartsRendered' = (edaData.kind # "none")
    /\ initPhase' = "ready"
    /\ UNCHANGED <<sharedVars, tokVars, edaVars, statVars, preDoc, zipDoc, csvDoc, modelLoad,
                   tokLoad, edaLoad, edaData, edaSource, errorShown, submitVars>>

\* init's catch: showError
InitCatch ==
    /\ Local
    /\ initPhase = "loading"
    /\ SomeLoadFailed
    /\ errorShown' = TRUE
    /\ initPhase' = "failed"
    /\ UNCHANGED <<sharedVars, tokVars, edaVars, statVars, preDoc, zipDoc, csvDoc, modelLoad,
                   tokLoad, edaLoad, isModelLoaded, isDataLoaded, edaData,
                   edaSource, chartsRendered, listenersAttached, btnDisabled,
                   submitVars>>

\* setupEDA: Papa.parse's complete or error callback runs
CsvSettles ==
    /\ variant = "remote"
    /\ edaLoad = "downloading"
    /\ \/ /\ csvDoc = "fails"
          /\ errorShown' = TRUE
          /\ UNCHANGED <<edaData, edaSource, chartsRendered>>
       \/ /\ csvDoc = "ok"
          /\ \E data \in AppRowSeqs :
                IF Len(data) = 0
                THEN /\ errorShown' = TRUE
                     /\ UNCHANGED <<edaData, edaSource, chartsRendered>>
                ELSE /\ edaData' = Summary(csvCounts(data))
                     /\ edaSource' = "computed"
                     /\ chartsRendered' = TRUE
                     /\ UNCHANGED errorShown
    /\ edaLoad' = "done"
    /\ UNCHANGED <<sharedVars, tokVars, edaVars, statVars, preDoc, zipDoc, csvDoc, modelLoad,
                   tokLoad, initPhase, isModelLoaded, isDataLoaded,
                   listenersAttached, btnDisabled, submitVars>>

-----------------------------------------------------------------------------
(* Submissions: predictJob of the local variants *)

Count(b) == IF b THEN 1 ELSE 0

\* probabilities are kept in thousandths: 0.5 is 500
half == 500

one == 1000

\* probArr[0] of the model output
ModelProbs == {270, 730}

\* a finally block that leaves the control as the handler set it
FinallyLocalKeepsDisabled == btnDisabled' = TRUE

\* finally { predictBtn.textContent = originalText; predictBtn.disabled = false }
FinallyLocal == btnDisabled' = FALSE

\* catch { console.error; alert('Prediction failed...') } finally {...}
CatchLocal ==
    /\ alertShown' = "failed"
    /\ FinallyLocal
    /\ pc' = "idle"
    /\ sub' = "settled"

\* a submission mutation: the handler goes on without disabling the control
StartLocalLeavesEnabled(nextPc) ==
    /\ btnDisabled' = FALSE
    /\ pc' = nextPc
    /\ requests' = requests + 1
    /\ sub' = "inflight"
    /\ alertShown' = "none"

\* predictBtn.textContent = 'Analyzing...'; predictBtn.disabled = true
StartLocal(nextPc) ==
    /\ btnDisabled' = TRUE
    /\ pc' = nextPc
    /\ requests' = requests + 1
    /\ sub' = "inflight"
    /\ alertShown' = "none"

\* the submit listener: predictJob up to its first await, or to its end. The
\* browser submits the form only while its submit button is enabled.
SubmitLocal ==
    /\ Local
    /\ listenersAttached
    /\ ~btnDisabled
    /\ leaked < MaxLeaked
    /\ \E form \in Forms :
         LET fullText == getFullText(form)
             tok      == tokenizeText(variant, wordIndex, maxLen, fullText)
         IN  /\ lastForm' = form
             /\ payload' = fullText
             /\ leaked' = leaked + Count(inputLive) + Count(outputLive)
             /\ IF IsBlank(fullText)
                THEN /\ alertShown' = "empty"
                     /\ sub' = "blank"
                     /\ invoked' = {}
                     /\ inputLive' = FALSE
                     /\ outputLive' = FALSE
                     /\ UNCHANGED <<pc, btnDisabled, requests>>
                ELSE IF tok.outcome = "threw"
                THEN /\ invoked' = {"tokenize"}
                     /\ inputLive' = FALSE
                     /\ outputLive' = FALSE
                     /\ CatchLocal
                     /\ UNCHANGED requests
                ELSE IF variant = "graph"
                THEN /\ invoked' = {"tokenize", "execute"}
                     /\ inputLive' = TRUE
                     /\ outputLive' = FALSE
                     /\ StartLocal("executing")
                ELSE /\ invoked' = {"tokenize", "execute"}
                     /\ inputLive' = TRUE
                     /\ \E predicted \in BOOLEAN :
                           IF predicted
                           THEN outputLive' = TRUE /\ StartLocal("reading")
                           ELSE outputLive' = FALSE /\ CatchLocal /\ UNCHANGED requests
    /\ UNCHANGED <<sharedVars, tokVars, edaVars, statVars, loadVars, listenersAttached,
                   statusText, timers, resultVisible, errorVisible, shownProba,
                   shownLabel, response>>

\* graph variant: await this.model.executeAsync(...) settles
ExecuteSettles ==
    /\ variant = "graph"
    /\ pc = "executing"
    /\ \E executed \in BOOLEAN :
         IF executed
         THEN /\ outputLive' = TRUE
              /\ pc' = "reading"
              /\ UNCHANGED <<btnDisabled, sub, alertShown, requests>>
         ELSE /\ CatchLocal
              /\ requests' = requests - 1
              /\ UNCHANGED outputLive
    /\ UNCHANGED <<sharedVars, tokVars, edaVars, statVars, loadVars, listenersAttached,
                   lastForm, invoked, payload, inputLive, leaked, statusText, timers,
                   resultVisible, errorVisible, shownProba, shownLabel, response>>

\* displayPrediction(prob)
displayPrediction(prob) ==
    /\ resultVisible' = TRUE
    /\ shownLabel' = (IF prob >= half THEN "fraud" ELSE "legit")
    /\ shownProba' = prob

\* await outputTensor.data() settles; on success the prediction is displayed
\* and both tensors are disposed
DataSettles ==
    /\ Local
    /\ pc = "reading"
    /\ requests' = requests - 1
    /\ \/ \E prob \in ModelProbs :
             /\ displayPrediction(prob)
             /\ inputLive' = FALSE
             /\ outputLive' = FALSE
             /\ FinallyLocal
             /\ pc' = "idle"
             /\ sub' = "settled"
             /\ UNCHANGED alertShown
       \/ /\ CatchLocal
          /\ UNCHANGED <<inputLive, outputLive, resultVisible, shownLabel, shownProba>>
    /\ UNCHANGED <<sharedVars, tokVars, edaVars, statVars, loadVars, listenersAttached,
                   lastForm, invoked, payload, leaked, statusText, timers, errorVisible,
                   response>>

-----------------------------------------------------------------------------
(* Submissions: the submit listener of the remote variant *)

\* NaN: typeof is "number", isNaN is true
NaNValue == [type |-> "nan", val |-> 0]

TypeofNumber(v) == v.type \in {"number", "nan"}

\* a field holding a JSON string
JsonString == [type |-> "string value", val |-> 0]

\* what a field of the parsed body can hold: a number below, within or above
\* [0, 1], a string, or nothing (absent or null). JSON has no NaN: a body
\* that spells NaN is not JSON and response.json() rejects.
ProbaValues == { Num(0 - 500), Num(270), Num(half), Num(1500), JsonString, Undefined }

NotOkResponse ==
    [ ok |-> FALSE, wellFormed |-> TRUE, fraud_proba |-> Undefined,
      probability |-> Undefined ]

MalformedResponse ==
    [ ok |-> TRUE, wellFormed |-> FALSE, fraud_proba |-> Undefined,
      probability |-> Undefined ]

Responses ==
    { NotOkResponse, MalformedResponse } \cup
    [ ok : {TRUE}, wellFormed : {TRUE}, fraud_proba : ProbaValues,
      probability : ProbaValues ]

\* typeof data.fraud_proba === "number" ? data.fraud_proba
\*   : typeof data.probability === "number" ? data.probability : null
probaRaw(data) ==
    IF TypeofNumber(data.fraud_proba) THEN data.fraud_proba
    ELSE IF TypeofNumber(data.probability) THEN data.probability
    ELSE Undefined

\* probaRaw === null || isNaN(probaRaw)
Unusable(v) == v.type # "number"

\* a clamping mutation: only values above 1 are brought back
ClampAbove(p) == Min(p, one)

\* Math.min(Math.max(probaRaw, 0), 1)
Clamp(p) == Min(Max(p, 0), one)

\* finally { predictButton.disabled = false; setTimeout(clear status, 2000) }
FinallyRemote ==
    /\ btnDisabled' = FALSE
    /\ timers' = timers + 1

\* catch: the error panel and the "Error." status; then finally
CatchRemote ==
    /\ errorVisible' = TRUE
    /\ statusText' = "Error."
    /\ FinallyRemote
    /\ pc' = "idle"
    /\ sub' = "settled"
    /\ requests' = requests - 1

\* a panel-reset mutation: only the error panel is hidden
HideErrorPanelOnly == errorVisible' = FALSE /\ UNCHANGED resultVisible

\* errorEl.classList.add("hidden"); resultEl.classList.add("hidden")
HidePanels == errorVisible' = FALSE /\ resultVisible' = FALSE

\* the submit listener up to await fetch("/predict", ...). The browser
\* submits the form only while its submit button is enabled.
SubmitRemote ==
    /\ variant = "remote"
    /\ listenersAttached
    /\ ~btnDisabled
    /\ timers < MaxTimers
    /\ \E form \in Forms :
         /\ lastForm' = form
         /\ payload' = fullTextRemote(form)
         /\ invoked' = {"post"}
    /\ HidePanels
    /\ btnDisabled' = TRUE
    /\ statusText' = "Sending request..."
    /\ pc' = "fetching"
    /\ requests' = requests + 1
    /\ sub' = "inflight"
    /\ response' = NoResponse
    /\ UNCHANGED <<sharedVars, tokVars, edaVars, statVars, loadVars, listenersAttached,
                   alertShown, inputLive, outputLive, leaked, timers, shownProba,
                   shownLabel>>

\* await fetch(...) settles: it rejects, or yields a response
FetchSettles ==
    /\ variant = "remote"
    /\ pc = "fetching"
    /\ \/ /\ CatchRemote
          /\ UNCHANGED <<resultVisible, shownProba, shownLabel, response>>
       \/ \E r \in Responses :
             /\ response' = r
             /\ IF ~r.ok
                THEN /\ CatchRemote
                     /\ UNCHANGED <<resultVisible, shownProba, shownLabel>>
                ELSE /\ pc' = "parsing"
                     /\ UNCHANGED <<btnDisabled, timers, errorVisible, statusText,
                                    sub, resultVisible, shownProba, shownLabel,
                                    requests>>
    /\ UNCHANGED <<sharedVars, tokVars, edaVars, statVars, loadVars, listenersAttached,
                   lastForm, invoked, payload, alertShown, inputLive, outputLive,
                   leaked>>

\* await response.json() settles; the probability is read, clamped and shown
JsonSettles ==
    /\ variant = "remote"
    /\ pc = "parsing"
    /\ IF ~response.wellFormed \/ Unusable(probaRaw(response))
       THEN /\ CatchRemote
            /\ UNCHANGED <<resultVisible, shownProba, shownLabel>>
       ELSE LET fraudProba == Clamp(probaRaw(response).val)
            IN  /\ resultVisible' = TRUE
                /\ shownLabel' = (IF fraudProba < half THEN "legit" ELSE "fraud")
                /\ shownProba' = fraudProba
                /\ statusText' = "Prediction received."
                /\ FinallyRemote
                /\ pc' = "idle"
                /\ sub' = "settled"
                /\ requests' = requests - 1
                /\ UNCHANGED errorVisible
    /\ UNCHANGED <<sharedVars, tokVars, edaVars, statVars, loadVars, listenersAttached,
                   lastForm, invoked, payload, alertShown, inputLive, outputLive,
                   leaked, response>>

\* a setTimeout callback of an earlier finally block runs
TimerFires ==
    /\ variant = "remote"
    /\ timers > 0
    /\ statusText' = ""
    /\ timers' = timers - 1
    /\ UNCHANGED <<sharedVars, tokVars, edaVars, statVars, loadVars, listenersAttached,
                   btnDisabled, pc, requests, sub, lastForm, invoked, payload, alertShown, inputLive,
                   outputLive, leaked, resultVisible, errorVisible, shownProba,
                   shownLabel, response>>

AppNext ==
    \/ LoadModelSettles
    \/ LoadTokenizerSettles
    \/ EdaFetchSettles
    \/ EdaZipSettles
    \/ InitAllLoaded
    \/ InitCatch
    \/ CsvSettles
    \/ SubmitLocal
    \/ ExecuteSettles
    \/ DataSettles
    \/ SubmitRemote
    \/ FetchSettles
    \/ JsonSettles
    \/ TimerFires

SpecApp == AppInit /\ [][AppNext]_vars

-----------------------------------------------------------------------------
(* Claims about tokenizeText, checked under SpecTok *)

\* C1: for every text and every configuration with maxLen > 0, tokenizeText
\* completes without raising and returns exactly fixedLen values (300 in the
\* graph variant, maxLen in the layers variant), all of them integers.
C1_EncodeReturnsFixedLenIntegers ==
    tokResult.outcome # "none" =>
        /\ tokResult.outcome = "returned"
        /\ Len(tokResult.data) = FixedLenOf(variant, maxLen)
        /\ \A i \in 1..Len(tokResult.data) : tokResult.data[i].type = "number"

\* C2: with s the token id sequence of the text, the output e has length
\* fixedLen, e[i] = s[i] for i within min(len(s), fixedLen) and e[i] = 0
\* everywhere else (truncation, right padding, all zeros for no tokens).
C2_EncodeTruncatesAndPads ==
    tokResult.outcome # "none" =>
        LET s == TokenIds(wordIndex, text)
            F == FixedLenOf(variant, maxLen)
        IN  /\ tokResult.outcome = "returned"
            /\ Len(tokResult.data) = F
            /\ \A i \in 1..F :
                   tokResult.data[i] = IF i <= Min(Len(s), F) THEN s[i] ELSE Num(0)

\* C3: every token kept in the output is encoded as the id wordIndex
\* configures for it when it is a key of wordIndex, and as 1 when it is not.
C3_OovIsOneKnownIsConfigured ==
    tokResult.outcome = "returned" =>
        LET words == matchWords(toLowerCase(text))
        IN  \A i \in 1..Min(Len(words), Min(maxLen, Len(tokResult.data))) :
                tokResult.data[i] =
                    IF words[i] \in DOMAIN wordIndex
                    THEN Num(wordIndex[words[i]])
                    ELSE Num(1)

-----------------------------------------------------------------------------
(* Claims about startup and submissions, checked under SpecApp *)

\* C4: in every variant, submitting a form whose fields are all empty or
\* whitespace-only invokes no inference step (no tokenization, no model
\* execution, no POST to /predict) and leaves the submit control enabled.
C4_BlankFormInvokesNothing ==
    (sub # "none" /\ AllBlank(lastForm)) => (invoked = {} /\ ~btnDisabled)

\* C5: once the inference call of a submission that disabled the submit
\* control has settled, on success or on any failure, the control is enabled.
C5_SettledSubmissionReenables ==
    sub = "settled" => ~btnDisabled

\* a failed submission of the graph variant has settled, the model having run
C5_Witness ==
    /\ variant = "graph"
    /\ sub = "settled"
    /\ alertShown = "failed"
    /\ "execute" \in invoked
    /\ ~btnDisabled

\* C6: once predictJob has finished, on the success path and on every failure
\* path, every tensor allocated for the submission has been disposed, so no
\* tensor stays allocated across submissions.
C6_TensorsDisposedOnEveryPath ==
    pc = "idle" => (~inputLive /\ ~outputLive /\ leaked = 0)

C8_ThreeLevelPrecedence ==
    (Local /\ edaLoad = "done") =>
        edaSource = IF preDoc = "ok" THEN "precomputed"
                    ELSE IF zipDoc = "ok" THEN "computed"
                    ELSE "mock"

\* neither the dataset nor a precomputed summary of it can be had
DatasetUnavailable ==
    IF Local THEN preDoc # "ok" /\ zipDoc # "ok" ELSE csvDoc = "fails"

\* startup is over and nothing but the dataset was missing
StartupOver ==
    /\ edaLoad = "done"
    /\ Local => (modelLoad = "ok" /\ tokLoad = "ok" /\ initPhase # "loading")

\* C9: whenever the dataset and its precomputed summary are unavailable at
\* startup, the synthetic summary is substituted, no error is shown and the
\* page proceeds normally (charts rendered, interaction enabled).
C9_DatasetFallbackIsSilent ==
    (DatasetUnavailable /\ StartupOver) =>
        /\ edaSource = "mock"
        /\ ~errorShown
        /\ chartsRendered
        /\ listenersAttached

\* the latest submission of the remote variant has settled
RemoteSettled == variant = "remote" /\ sub = "settled"

\* the response of the latest submission carries no usable probability: the
\* fetch failed, the status is not 2xx, the body is not a JSON object, or
\* neither field is a number
NoUsableProbability ==
    \/ ~response.ok
    \/ ~response.wellFormed
    \/ (response.fraud_proba.type # "number" /\ response.probability.type # "number")

\* the number the response carries, fraud_proba first
ReturnedProbability ==
    IF response.fraud_proba.type = "number"
    THEN response.fraud_proba.val ELSE response.probability.val

\* C14: in the remote variant a response with a non-2xx status, or a body in
\* which neither fraud_proba nor probability is a number, ends in the error
\* outcome (error shown, no result shown); for every other response the
\* probability used for the label and the percentages is the returned value
\* clamped to [0, 1].
C14_RemoteOutcomeFollowsResponse ==
    RemoteSettled =>
        IF NoUsableProbability
        THEN errorVisible /\ ~resultVisible
        ELSE LET v       == ReturnedProbability
                 clamped == IF v < 0 THEN 0 ELSE IF v > one THEN one ELSE v
             IN  /\ resultVisible /\ ~errorVisible
                 /\ shownProba = clamped
                 /\ shownLabel = (IF clamped < half THEN "legit" ELSE "fraud")

\* C14: a body whose fraud_proba is not a number and whose probability is
\* below 0 has been shown as probability 0
C14_Witness ==
    /\ RemoteSettled
    /\ response.ok /\ response.wellFormed
    /\ response.fraud_proba.type # "number"
    /\ response.probability = Num(0 - 500)
    /\ resultVisible /\ shownProba = 0 /\ shownLabel = "legit"

C18_StatusStaysWhileInFlight ==
    (variant = "remote" /\ requests > 0) => statusText = "Sending request..."

\* C19: in the remote variant, once a submission has been made, the result
\* panel and the error panel are never visible together: both are hidden
\* from the start of a submission until it settles, and once it settles
\* exactly one of them is visible, the result on success and the error on
\* failure.
C19_PanelsExclusive ==
    (variant = "remote" /\ sub # "none") =>
        /\ ~(resultVisible /\ errorVisible)
        /\ (requests > 0) => (~resultVisible /\ ~errorVisible)
        /\ (sub = "settled") =>
              /\ resultVisible # errorVisible
              /\ errorVisible <=> NoUsableProbability

\* C19: a submission is in flight with both panels hidden although the one
\* before it ended with its result on display
C19_Witness ==
    /\ variant = "remote"
    /\ requests = 1
    /\ shownLabel # "none"
    /\ ~resultVisible /\ ~errorVisible

-----------------------------------------------------------------------------
(* Claims about the dataset statistics, checked under SpecEda *)

\* C10: for any rows, whatever their fraudulent field holds, the class
\* distribution has fake = number of rows with fraudulent == "1", real =
\* number of all other rows, and total = real + fake = number of rows.
C10_ClassDistributionCountsEveryRow ==
    edaOut.kind = "summary" =>
        LET cd    == edaOut.summary.classDistribution
            ones  == Cardinality({ i \in 1..Len(rows) :
                        rows[i].fraudulent.type = "string"
                            /\ rows[i].fraudulent.val = <<"1">> })
        IN  /\ cd.fake = ones
            /\ cd.real = Len(rows) - ones
            /\ cd.total = cd.real + cd.fake
            /\ cd.total = Len(rows)

\* a summary computed by computeEdaStats from the dataset
LocalSummary == variant \in {"graph", "layers"} /\ edaOut.kind = "summary"

\* row i belongs to class c: fake iff its fraudulent field is "1"
InClass(i, c) ==
    (c = "fake") <=>
        (rows[i].fraudulent.type = "string" /\ rows[i].fraudulent.val = <<"1">>)

\* field f of row i is absent, or empty once whitespace is trimmed
LacksField(i, f) ==
    \/ rows[i][f].type = "undefined"
    \/ \A k \in 1..Len(rows[i][f].val) : rows[i][f].val[k] = " "

LackCount(c, f) ==
    Cardinality({ i \in 1..Len(rows) : InClass(i, c) /\ LacksField(i, f) })

\* C11 as stated: computeMissingValues returns, for each class and each of
\* the five fields, the number of rows of that class whose field is absent
\* or blank; rows of one class never change a count of the other.
C11_MissingCountsPerClass ==
    LocalSummary =>
        \A c \in {"real", "fake"} : \A f \in TextFieldSet :
            edaOut.summary.missingValues[c][f] = Num(LackCount(c, f))

\* C11, amended: for a class that has at least one row, each field's count is
\* the number of rows of that class whose field is absent or blank, and rows
\* of the other class never change it; a class without rows has no count for
\* any field (the chart reads the missing count as 0).
C11_MissingCountsOfPresentClasses ==
    LocalSummary =>
        \A c \in {"real", "fake"} : \A f \in TextFieldSet :
            edaOut.summary.missingValues[c][f] =
                IF \E i \in 1..Len(rows) : InClass(i, c)
                THEN Num(LackCount(c, f)) ELSE Undefined

\* C11: both classes have a row, one of them with a whitespace-only title
C11_Witness ==
    /\ LocalSummary
    /\ \E i, j \in 1..Len(rows) :
          /\ InClass(i, "fake") /\ InClass(j, "real")
          /\ rows[i].title = Str(<<" ">>)
    /\ edaOut.summary.missingValues.fake.title = Num(1)

FieldLen(i, f) == IF rows[i][f].type = "string" THEN Len(rows[i][f].val) ELSE 0

SumOfFieldLens(i) ==
    FieldLen(i, "title") + FieldLen(i, "description")
        + FieldLen(i, "company_profile") + FieldLen(i, "requirements")
        + FieldLen(i, "benefits")

KeptFields(i) == { f \in TextFieldSet : FieldLen(i, f) > 0 }

\* C17 as stated: textLengths has one entry per row, in row order, whose
\* length is the sum of the character lengths of the five text fields
\* (absent and empty ones skipped) and whose isFake is fraudulent == "1".
C17_TextLengthIsSumOfFields ==
    LocalSummary =>
        LET tl == edaOut.summary.textLengths
        IN  /\ Len(tl) = Len(rows)
            /\ \A i \in 1..Len(rows) :
                  /\ tl[i].length = SumOfFieldLens(i)
                  /\ tl[i].isFake = InClass(i, "fake")

\* C17, amended: textLengths has one entry per row, in row order, whose
\* length is the length of the row's non-empty text fields joined by single
\* blanks (the sum of their lengths plus one for every kept field after the
\* first) and whose isFake is fraudulent == "1".
C17_TextLengthIsJoinedLength ==
    LocalSummary =>
        LET tl == edaOut.summary.textLengths
        IN  /\ Len(tl) = Len(rows)
            /\ \A i \in 1..Len(rows) :
                  /\ tl[i].length =
                        SumOfFieldLens(i)
                            + Max(Cardinality(KeptFields(i)) - 1, 0)
                  /\ tl[i].isFake = InClass(i, "fake")

\* C17: a fake row with two non-empty fields after a row of the other class
C17_Witness ==
    /\ LocalSummary
    /\ Len(rows) = 2
    /\ InClass(1, "real") /\ InClass(2, "fake")
    /\ Cardinality(KeptFields(2)) >= 2
    /\ edaOut.summary.textLengths[2].isFake

-----------------------------------------------------------------------------
(* Claims about the word lists, checked under SpecWords *)

\* the words of the rows the code hands to extractWords for class c
ClassWords(c) ==
    LET jobs == IF c = "fake" THEN SelectSeq(rows, IsOne) ELSE SelectSeq(rows, IsZero)
    IN  jobWords(variant, jobs, Len(jobs))

WordList(c) ==
    IF c = "fake" THEN edaOut.summary.fakeWords ELSE edaOut.summary.realWords

Occurrences(c, w) ==
    LET ws == ClassWords(c)
    IN  Cardinality({ k \in 1..Len(ws) : ws[k] = w })

FirstSeen(c, w) ==
    LET ws == ClassWords(c)
    IN  CHOOSE k \in 1..Len(ws) : ws[k] = w /\ \A m \in 1..(k - 1) : ws[m] # w

\* C12: each word list has at most 100 entries, is sorted by non-increasing
\* frequency, and every entry's frequency is the number of occurrences of
\* its word in the lower-cased title, description and company_profile text
\* of the rows of that class.
C12_WordListsCountOccurrences ==
    LocalSummary =>
        \A c \in {"real", "fake"} :
            LET list == WordList(c)
            IN  /\ Len(list) <= topWords
                /\ \A i \in 1..Len(list) :
                      /\ list[i].freq.type = "number"
                      /\ list[i].freq.val = Occurrences(c, list[i].word)
                /\ \A i \in 1..(Len(list) - 1) :
                      list[i].freq.val >= list[i + 1].freq.val

\* C13: words with equal frequency appear in the order in which they were
\* first met while scanning the rows, digit-only words included, and the
\* same rule decides which of the tied words are cut after the hundredth.
\* (In a sorted list tied words are neighbours, so neighbours are compared.)
C13_TiesKeepFirstSeenOrder ==
    LocalSummary =>
        \A c \in {"real", "fake"} :
            LET list    == WordList(c)
                ws      == ClassWords(c)
                listed  == { list[i].word : i \in 1..Len(list) }
                omitted == { ws[k] : k \in 1..Len(ws) } \ listed
                last    == list[Len(list)]
            IN  /\ \A i \in 1..(Len(list) - 1) :
                      ( /\ list[i].freq.type = "number"
                        /\ list[i + 1].freq.type = "number"
                        /\ list[i].freq.val = list[i + 1].freq.val )
                          => FirstSeen(c, list[i].word) < FirstSeen(c, list[i + 1].word)
                /\ \A w \in omitted :
                      ( /\ last.freq.type = "number"
                        /\ Occurrences(c, w) = last.freq.val )
                          => FirstSeen(c, last.word) < FirstSeen(c, w)

-----------------------------------------------------------------------------
(* Claims about the five-number summary, checked under SpecStats *)

\* v is the number at 0-based position k of the given values in ascending
\* order: at most k of them are smaller and more than k are not larger
IsKthOfGiven(v, k) ==
    /\ v.type = "number"
    /\ Cardinality({ i \in 1..Len(given) : given[i] < v.val }) <= k
    /\ Cardinality({ i \in 1..Len(given) : given[i] <= v.val }) > k

\* C16: for every non-empty sequence of numbers of length n, stats returns
\* min and max as the least and greatest element and q1, median, q3 as the
\* elements at 0-based positions floor(n/4), floor(n/2), floor(3n/4) of the
\* ascending order, and leaves the input as it was; the median of
\* [1,2,3,4,5] is 3 and q1 of [1,2,3,4] is 2.
C16_FiveNumberSummary ==
    (statsOut.called /\ given # <<>>) =>
        LET sm == statsOut.summary
            n  == Len(given)
        IN  /\ sm.min.type = "number" /\ sm.max.type = "number"
            /\ \E i \in 1..n : given[i] = sm.min.val
            /\ \E i \in 1..n : given[i] = sm.max.val
            /\ \A i \in 1..n : sm.min.val <= given[i] /\ given[i] <= sm.max.val
            /\ IsKthOfGiven(sm.q1, n \div 4)
            /\ IsKthOfGiven(sm.median, n \div 2)
            /\ IsKthOfGiven(sm.q3, (3 * n) \div 4)
            /\ arr = given
            /\ (given = <<1, 2, 3, 4, 5>> => sm.median.val = 3)
            /\ (given = <<1, 2, 3, 4>> => sm.q1.val = 2)

\* C16: an unsorted array of five values has been summarised
C16_Witness ==
    /\ statsOut.called
    /\ given = <<5, 1, 4, 2, 3>>
    /\ arr = given
    /\ statsOut.summary.median = Num(3)
    /\ statsOut.summary.q1 = Num(2)
    /\ statsOut.summary.q3 = Num(4)

=============================================================================
